---- MODULE Spec2Model ----
(***************************************************************************)
(* laptop-backup: mirror source paths into a staging tree, archive the     *)
(* staging tree, encrypt the archive.                                      *)
(*                                                                         *)
(* Two programs are modelled over one state:                               *)
(*   prog = "main" : src/src/main.rs, the binary with its own copies of    *)
(*                   the mirror, archive and encrypt functions;            *)
(*   prog = "lib"  : src/src/backup_library.rs, called in the pipeline     *)
(*                   order mirror -> zip_files_in_folder -> encrypt_file.  *)
(* Paths are sequences of components; the first component of an absolute   *)
(* path is the root directory "/".                                         *)
(***************************************************************************)
EXTENDS Integers, Sequences, FiniteSets, Bags, TLC

VARIABLES prog, fs, paths, key, pc, idx, stack, results, events,
          stagedDirs, stagedFiles, diag, archive, zipResult,
          encrypted, encResult, exitCode, faults

vars == <<prog, fs, paths, key, pc, idx, stack, results, events,
          stagedDirs, stagedFiles, diag, archive, zipResult,
          encrypted, encResult, exitCode, faults>>

env == <<prog, fs, paths, key>>
staging == <<stagedDirs, stagedFiles>>
tail == <<archive, zipResult, encrypted, encResult, exitCode>>

(* ------------------------------ bounds -------------------------------- *)

\* Call-stack depth at which the recursion of backup_folder overflows.
MaxDepth == 6

\* Symbolic links followed while resolving one path before giving up.
SymlinkMax == 3

(* ------------------------------ paths --------------------------------- *)

NONE == <<"?">>

RootDir == "/"

BACKUP_FOLDER_PATH == <<"laptop-backup">>

Front(p) == SubSeq(p, 1, Len(p) - 1)

Last(p) == p[Len(p)]

is_absolute(p) == p # <<>> /\ Head(p) = RootDir

\* Path::strip_prefix(Component::RootDir).unwrap_or(path)
strip_prefix_root(p) == IF is_absolute(p) THEN Tail(p) ELSE p

\* Path::join: an absolute right-hand side replaces the left-hand side.
join(base, p) == IF is_absolute(p) THEN p ELSE base \o p

parent(p) == Front(p)

file_name(p) == Last(p)

IsPrefix(p, q) == Len(p) <= Len(q) /\ SubSeq(q, 1, Len(p)) = p

Prefixes(p) == { SubSeq(p, 1, k) : k \in 1..Len(p) }

(* --------------------------- source file system ----------------------- *)

DirNode(listable) == [kind |-> "dir", target |-> <<>>, ok |-> listable]
FileNode(readable) == [kind |-> "file", target |-> <<>>, ok |-> readable]
LinkNode(to) == [kind |-> "link", target |-> to, ok |-> TRUE]
SpecialNode == [kind |-> "special", target |-> <<>>, ok |-> TRUE]

D == <<"/", "d">>
Nowhere == <<"/", "gone">>

\* The tree used with the library: /d{a, b, s{c, t{e}}}.
LibTree(a, b, c, t, e) ==
    (<<"/">> :> DirNode(TRUE)) @@ (D :> DirNode(TRUE))
    @@ ((D \o <<"a">>) :> a) @@ ((D \o <<"b">>) :> b)
    @@ ((D \o <<"s">>) :> DirNode(TRUE))
    @@ ((D \o <<"s", "c">>) :> c)
    @@ ((D \o <<"s", "t">>) :> t)
    @@ ((D \o <<"s", "t", "e">>) :> e)

AChoices == { FileNode(TRUE), SpecialNode, LinkNode(D), LinkNode(D \o <<"b">>),
              LinkNode(D \o <<"s">>), LinkNode(Nowhere) }
BChoices == { FileNode(TRUE), FileNode(FALSE) }
CChoices == { FileNode(TRUE), SpecialNode, LinkNode(D \o <<"s">>),
              LinkNode(D \o <<"b">>) }
TChoices == { DirNode(TRUE), DirNode(FALSE) }
EChoices == { FileNode(TRUE), FileNode(FALSE) }

LibTrees == { LibTree(a, b, c, t, e) :
                a \in AChoices, b \in BChoices, c \in CChoices,
                t \in TChoices, e \in EChoices }

LibSources == { D, D \o <<"s">>, D \o <<"b">>, D \o <<"s", "t", "e">>,
                D \o <<"a">>, <<"d", "b">>, Nowhere }

\* std::fs::canonicalize: resolve every symbolic link on the way. The parent
\* is resolved first; a missing component or too many links give no path.
RECURSIVE Canon(_, _)
Canon(p, fuel) ==
    IF ~is_absolute(p) THEN NONE
    ELSE IF Len(p) = 1 THEN p
    ELSE CHOOSE r \in
           { IF ~is_absolute(q) \/ q \notin DOMAIN fs THEN NONE
             ELSE IF fs[q].kind = "link"
                  THEN IF fuel = 0 THEN NONE ELSE Canon(fs[q].target, fuel - 1)
                  ELSE q :
             q \in { Append(par, Last(p)) : par \in {Canon(Front(p), fuel)} } } : TRUE

canonicalize(p) == Canon(p, SymlinkMax)

\* Path::is_dir and Path::is_file query the metadata of the link target.
is_dir(p) == canonicalize(p) # NONE /\ fs[canonicalize(p)].kind = "dir"

is_file(p) == canonicalize(p) # NONE /\ fs[canonicalize(p)].kind = "file"

\* The entries one listing of directory p yields, as paths under p.
read_dir(p) ==
    { Append(p, Last(q)) : q \in { r \in DOMAIN fs : Len(r) > 1 /\ Front(r) = canonicalize(p) } }

listable(p) == fs[canonicalize(p)].ok

readable(p) == fs[canonicalize(p)].ok

(* ----------------------------- staging tree --------------------------- *)

\* fs::create_dir_all: the directory and every missing ancestor.
create_dir_all(p) == stagedDirs \cup Prefixes(p)

\* fs::copy: the bytes of the link target land in a regular file at dst.
copied(src, dst) ==
    [q \in (DOMAIN stagedFiles) \cup {dst} |->
        IF q = dst THEN [from |-> src, data |-> canonicalize(src)] ELSE stagedFiles[q]]

Note(stream, kind, p) == SetToBag({[stream |-> stream, kind |-> kind, path |-> p]})

EmptyFiles == [q \in {} |-> [from |-> <<>>, data |-> <<>>]]

(* ------------------------------ call stack ---------------------------- *)

Top == stack[Len(stack)]

Frame(fn, folder, dest, root, todo, walkErr) ==
    [fn |-> fn, folder |-> folder, dest |-> dest, root |-> root, todo |-> todo,
     walkErr |-> walkErr]

\* The stack once the loop of the running function has taken entry e.
Consumed(e) ==
    IF stack = <<>> THEN <<>>
    ELSE [stack EXCEPT ![Len(stack)].todo = @ \ {e}]

\* The event log once the mirror call for paths[idx] has been entered.
Entered == IF pc = "mirror" THEN Append(events, <<"mirror", idx>>) ELSE events

\* The mirror call for paths[idx] returns res to its caller.
Return(res) ==
    /\ stack' = <<>>
    /\ results' = Append(results, res)
    /\ events' = Append(Entered, <<"mirror_ret", idx>>)
    /\ idx' = idx + 1
    /\ pc' = IF idx + 1 > Len(paths) THEN "zip_create" ELSE "mirror"

\* Recursion deeper than the stack allows aborts the process.
Overflow ==
    /\ stack' = <<>>
    /\ results' = Append(results, "overflow")
    /\ events' = Append(Entered, <<"abort", idx>>)
    /\ pc' = "done"
    /\ UNCHANGED idx

Running == /\ pc' = "walk"
           /\ events' = Entered
           /\ UNCHANGED <<idx, results>>

(* ------------------- backup_library.rs: Path Mirror ------------------- *)

\* Variant: the root separator is not stripped before joining.
build_full_backup_path_unstripped(source_path, backup_folder_path) ==
    join(backup_folder_path, source_path)

build_full_backup_path(source_path, backup_folder_path) ==
    join(backup_folder_path, strip_prefix_root(source_path))

\* Path of the mirrored folder; the caller creates it with create_dir_all.
create_folder_in_backup_structure(source_path_folder, backup_folder_path) ==
    join(backup_folder_path, strip_prefix_root(source_path_folder))

backup_folder(folder, backup_folder_path) ==
    IF Len(stack) >= MaxDepth
    THEN Overflow /\ UNCHANGED <<staging, diag, faults>>
    ELSE IF ~is_dir(folder)
    THEN Return("err") /\ UNCHANGED <<staging, diag, faults>>
    ELSE \E made \in BOOLEAN :
         LET full_backup_folder_path ==
                 create_folder_in_backup_structure(folder, backup_folder_path)
         IN  IF ~made
             THEN /\ Return("err")
                  /\ faults' = faults \cup {"create_dir_all"}
                  /\ UNCHANGED <<staging, diag>>
             ELSE /\ stagedDirs' = create_dir_all(full_backup_folder_path)
                  /\ UNCHANGED <<stagedFiles, diag, faults>>
                  /\ stack' = Append(Consumed(folder),
                        Frame("backup_folder", folder, full_backup_folder_path,
                              backup_folder_path,
                              IF listable(folder)
                              THEN {folder} \cup read_dir(folder)
                              ELSE {folder},
                              ~listable(folder)))
                  /\ Running

\* Variant: a failed fs::copy is propagated with ? instead of reported.
copy_file_from_folder_propagating(file, destination_folder, backup_folder_path) ==
    IF is_dir(file)
    THEN backup_folder(file, backup_folder_path)
    ELSE IF is_file(file) /\ Len(file) > 1 /\ ~readable(file)
    THEN Return("err") /\ UNCHANGED <<staging, diag, faults>>
    ELSE /\ stack' = Consumed(file)
         /\ Running
         /\ UNCHANGED <<stagedDirs, faults>>
         /\ IF ~is_file(file)
            THEN /\ diag' = diag (+) Note("stdout", "skip", file)
                 /\ UNCHANGED stagedFiles
            ELSE IF Len(file) <= 1
            THEN /\ diag' = diag (+) Note("stdout", "no_name", file)
                 /\ UNCHANGED stagedFiles
            ELSE /\ stagedFiles' = copied(file, Append(destination_folder, file_name(file)))
                 /\ UNCHANGED diag

copy_file_from_folder(file, destination_folder, backup_folder_path) ==
    IF is_dir(file)
    THEN backup_folder(file, backup_folder_path)
    ELSE /\ stack' = Consumed(file)
         /\ Running
         /\ UNCHANGED <<stagedDirs, faults>>
         /\ IF ~is_file(file)
            THEN /\ diag' = diag (+) Note("stdout", "skip", file)
                 /\ UNCHANGED stagedFiles
            ELSE IF Len(file) <= 1
            THEN /\ diag' = diag (+) Note("stdout", "no_name", file)
                 /\ UNCHANGED stagedFiles
            ELSE LET file_destination == Append(destination_folder, file_name(file))
                 IN  IF readable(file)
                     THEN /\ stagedFiles' = copied(file, file_destination)
                          /\ UNCHANGED diag
                     ELSE /\ diag' = diag (+) Note("stderr", "copy_failed", file)
                          /\ UNCHANGED stagedFiles

\* Variant: every directory entry is recursed into, without comparing its
\* canonical path with the folder's.
backup_folder_walk_unguarded ==
    /\ pc = "walk" /\ stack # <<>> /\ Top.fn = "backup_folder"
    /\ UNCHANGED <<env, tail>>
    /\ \E file \in Top.todo :
         IF is_dir(file)
         THEN backup_folder(file, Top.root)
         ELSE copy_file_from_folder(file, Top.dest, Top.root)

\* The loop of backup_folder over WalkDir::new(folder).max_depth(1), which
\* yields the folder itself and then its entries, in no particular order.
backup_folder_walk ==
    /\ pc = "walk" /\ stack # <<>> /\ Top.fn = "backup_folder"
    /\ UNCHANGED <<env, tail>>
    /\ \E file \in Top.todo :
         IF is_dir(file)
         THEN IF canonicalize(file) # canonicalize(Top.folder)
              THEN backup_folder(file, Top.root)
              ELSE /\ stack' = Consumed(file)
                   /\ Running
                   /\ UNCHANGED <<staging, diag, faults>>
         ELSE copy_file_from_folder(file, Top.dest, Top.root)

backup_file(source_path, backup_folder_path) ==
    IF ~is_file(source_path)
    THEN Return("err") /\ UNCHANGED <<staging, diag, faults>>
    ELSE LET full_backup_folder_path == build_full_backup_path(source_path, backup_folder_path)
             parent_dir == parent(full_backup_folder_path)
         IN  \E made \in BOOLEAN :
               IF ~made
               THEN /\ Return("err")
                    /\ faults' = faults \cup {"create_dir_all"}
                    /\ UNCHANGED <<staging, diag>>
               ELSE /\ stagedDirs' = create_dir_all(parent_dir)
                    /\ UNCHANGED faults
                    /\ stack' = <<>>
                    /\ Running
                    /\ LET file_destination == Append(parent_dir, file_name(source_path))
                       IN  IF readable(source_path)
                           THEN /\ stagedFiles' = copied(source_path, file_destination)
                                /\ UNCHANGED diag
                           ELSE /\ diag' = diag (+) Note("stderr", "copy_failed", source_path)
                                /\ UNCHANGED stagedFiles

backup_directory_contents(source_path, backup_folder_path) ==
    IF ~is_absolute(source_path)
    THEN Return("err") /\ UNCHANGED <<staging, diag, faults>>
    ELSE IF ~is_dir(source_path)
    THEN backup_file(source_path, backup_folder_path)
    ELSE LET full_backup_folder_path == build_full_backup_path(source_path, backup_folder_path)
         IN  \E made \in BOOLEAN :
               IF ~made
               THEN /\ Return("err")
                    /\ faults' = faults \cup {"create_dir_all"}
                    /\ UNCHANGED <<staging, diag>>
               ELSE /\ stagedDirs' = create_dir_all(full_backup_folder_path)
                    /\ UNCHANGED <<stagedFiles, diag, faults>>
                    /\ IF ~listable(source_path)
                       THEN Return("err")
                       ELSE /\ stack' = <<Frame("backup_directory_contents", source_path,
                                                 full_backup_folder_path, backup_folder_path,
                                                 read_dir(source_path), FALSE)>>
                            /\ Running

\* The loop of backup_directory_contents over fs::read_dir(source_path).
backup_directory_contents_loop ==
    /\ pc = "walk" /\ stack # <<>> /\ Top.fn = "backup_directory_contents"
    /\ UNCHANGED <<env, tail>>
    /\ \E entry \in Top.todo :
         copy_file_from_folder(entry, Top.dest, Top.root)

\* A loop that has run out of entries returns Ok(()) to its caller, or the
\* walk error when the folder could not be listed.
LoopReturn ==
    /\ pc = "walk"
    /\ UNCHANGED <<env, tail, staging, diag, faults>>
    /\ IF stack = <<>> THEN Return("ok")
       ELSE /\ Top.todo = {}
            /\ IF Top.walkErr THEN Return("err")
               ELSE IF Len(stack) = 1 THEN Return("ok")
               ELSE /\ stack' = Front(stack)
                    /\ Running

lib_return == prog = "lib" /\ LoopReturn

\* The caller of the library hands it the configured source path.
lib_mirror ==
    /\ prog = "lib" /\ pc = "mirror" /\ idx <= Len(paths)
    /\ UNCHANGED <<env, tail>>
    /\ backup_directory_contents(paths[idx], BACKUP_FOLDER_PATH)

(* ------------------------ main.rs: Path Mirror ------------------------ *)

main_create_folder_in_backup_structure(source_path_folder) ==
    join(BACKUP_FOLDER_PATH, strip_prefix_root(source_path_folder))

main_backup_folder(folder) ==
    IF Len(stack) >= MaxDepth
    THEN Overflow /\ UNCHANGED <<staging, diag, faults>>
    ELSE IF ~is_dir(folder)
    THEN Return("err") /\ UNCHANGED <<staging, diag, faults>>
    ELSE \E made \in BOOLEAN :
         LET full_backup_folder_path == main_create_folder_in_backup_structure(folder)
         IN  IF ~made
             THEN /\ Return("err")
                  /\ faults' = faults \cup {"create_dir_all"}
                  /\ UNCHANGED <<staging, diag>>
             ELSE /\ stagedDirs' = create_dir_all(full_backup_folder_path)
                  /\ UNCHANGED <<stagedFiles, diag, faults>>
                  /\ stack' = Append(Consumed(folder),
                        Frame("main_backup_folder", folder, full_backup_folder_path,
                              BACKUP_FOLDER_PATH,
                              IF listable(folder)
                              THEN {folder} \cup read_dir(folder)
                              ELSE {folder},
                              ~listable(folder)))
                  /\ Running

main_copy_file_from_folder(file, destination_folder) ==
    IF is_dir(file)
    THEN main_backup_folder(file)
    ELSE /\ stack' = Consumed(file)
         /\ Running
         /\ UNCHANGED <<stagedDirs, faults>>
         /\ IF ~is_file(file)
            THEN /\ diag' = diag (+) Note("stderr", "skip", file)
                 /\ UNCHANGED stagedFiles
            ELSE IF Len(file) <= 1
            THEN /\ diag' = diag (+) Note("stderr", "no_name", file)
                 /\ UNCHANGED stagedFiles
            ELSE LET file_destination == Append(destination_folder, file_name(file))
                 IN  IF readable(file)
                     THEN /\ stagedFiles' = copied(file, file_destination)
                          /\ UNCHANGED diag
                     ELSE /\ diag' = diag (+) Note("stderr", "copy_failed", file)
                          /\ UNCHANGED stagedFiles

main_backup_folder_walk ==
    /\ pc = "walk" /\ stack # <<>> /\ Top.fn = "main_backup_folder"
    /\ UNCHANGED <<env, tail>>
    /\ \E file \in Top.todo :
         IF is_dir(file)
         THEN IF canonicalize(file) # canonicalize(Top.folder)
              THEN main_backup_folder(file)
              ELSE /\ stack' = Consumed(file)
                   /\ Running
                   /\ UNCHANGED <<staging, diag, faults>>
         ELSE main_copy_file_from_folder(file, Top.dest)

backup_files_from_folder(source_path) ==
    IF ~is_absolute(source_path)
    THEN Return("err") /\ UNCHANGED <<staging, diag, faults>>
    ELSE IF ~is_dir(source_path)
    THEN Return("err") /\ UNCHANGED <<staging, diag, faults>>
    ELSE LET full_backup_folder_path ==
                 join(BACKUP_FOLDER_PATH, strip_prefix_root(source_path))
         IN  \E made \in BOOLEAN :
               IF ~made
               THEN /\ Return("err")
                    /\ faults' = faults \cup {"create_dir_all"}
                    /\ UNCHANGED <<staging, diag>>
               ELSE /\ stagedDirs' = create_dir_all(full_backup_folder_path)
                    /\ UNCHANGED <<stagedFiles, diag, faults>>
                    /\ IF ~listable(source_path)
                       THEN Return("err")
                       ELSE /\ stack' = <<Frame("backup_files_from_folder", source_path,
                                                 full_backup_folder_path, BACKUP_FOLDER_PATH,
                                                 read_dir(source_path), FALSE)>>
                            /\ Running

backup_files_from_folder_loop ==
    /\ pc = "walk" /\ stack # <<>> /\ Top.fn = "backup_files_from_folder"
    /\ UNCHANGED <<env, tail>>
    /\ \E entry \in Top.todo :
         main_copy_file_from_folder(entry, Top.dest)

main_return == prog = "main" /\ LoopReturn

\* main: for path in paths { if let Err(err) = backup_files_from_folder(path) ... }
main_for ==
    /\ prog = "main" /\ pc = "mirror" /\ idx <= Len(paths)
    /\ UNCHANGED <<env, tail>>
    /\ backup_files_from_folder(paths[idx])

(* ------------------------------ Archiver ------------------------------ *)

mirrorState == <<stack, results, idx, diag>>

Logged(e) == events' = Append(events, e)

\* tar::Builder::append_dir_all lists the folder: a missing folder is an error.
can_append == BACKUP_FOLDER_PATH \in stagedDirs

\* What the caller of the library does with the result of zip_files_in_folder.
lib_after_zip(res) == IF res = "ok" THEN "enc_parse" ELSE "done"

\* remove_dir_all that fails part-way has removed none or some of the tree.
RemoveFailed ==
    \/ UNCHANGED staging
    \/ stagedFiles' = EmptyFiles /\ UNCHANGED stagedDirs

\* backup_library.rs: File::create(&filename), bail! on failure.
zip_create ==
    /\ prog = "lib" /\ pc = "zip_create"
    /\ UNCHANGED <<env, mirrorState, staging, encrypted, encResult, exitCode>>
    /\ \E ok \in BOOLEAN :
         IF ok
         THEN /\ archive' = [archive EXCEPT !.state = "created"]
              /\ pc' = "zip_append"
              /\ Logged(<<"zip", 0>>)
              /\ UNCHANGED <<zipResult, faults>>
         ELSE /\ zipResult' = "err"
              /\ faults' = faults \cup {"tar_create"}
              /\ pc' = lib_after_zip("err")
              /\ events' = events \o << <<"zip", 0>>, <<"zip_ret", 0>> >>
              /\ UNCHANGED archive

\* backup_library.rs: archive.append_dir_all(folder, folder).with_context(..)?
zip_append ==
    /\ prog = "lib" /\ pc = "zip_append"
    /\ UNCHANGED <<env, mirrorState, staging, encrypted, encResult, exitCode>>
    /\ \E ok \in BOOLEAN :
         IF ok /\ can_append
         THEN /\ archive' = [archive EXCEPT !.state = "appended",
                                            !.content = [dirs |-> stagedDirs, files |-> stagedFiles]]
              /\ pc' = "zip_finish"
              /\ UNCHANGED <<zipResult, faults, events>>
         ELSE /\ zipResult' = "err"
              /\ faults' = IF can_append THEN faults \cup {"tar_append"} ELSE faults
              /\ pc' = lib_after_zip("err")
              /\ Logged(<<"zip_ret", 0>>)
              /\ UNCHANGED archive

\* Variant: the staging root is removed before the archive is finished.
zip_finish_after_removal ==
    /\ prog = "lib" /\ pc = "zip_finish"
    /\ UNCHANGED <<env, mirrorState, encrypted, encResult, exitCode>>
    /\ stagedDirs' = {}
    /\ stagedFiles' = EmptyFiles
    /\ \E ok \in BOOLEAN :
         IF ok
         THEN /\ archive' = [archive EXCEPT !.state = "finalized"]
              /\ pc' = "zip_remove"
              /\ UNCHANGED <<zipResult, faults, events>>
         ELSE /\ zipResult' = "err"
              /\ faults' = faults \cup {"tar_finish"}
              /\ pc' = lib_after_zip("err")
              /\ Logged(<<"zip_ret", 0>>)
              /\ UNCHANGED archive

\* backup_library.rs: archive.finish()?
zip_finish ==
    /\ prog = "lib" /\ pc = "zip_finish"
    /\ UNCHANGED <<env, mirrorState, staging, encrypted, encResult, exitCode>>
    /\ \E ok \in BOOLEAN :
         IF ok
         THEN /\ archive' = [archive EXCEPT !.state = "finalized"]
              /\ pc' = "zip_remove"
              /\ UNCHANGED <<zipResult, faults, events>>
         ELSE /\ zipResult' = "err"
              /\ faults' = faults \cup {"tar_finish"}
              /\ pc' = lib_after_zip("err")
              /\ Logged(<<"zip_ret", 0>>)
              /\ UNCHANGED archive

\* backup_library.rs: remove_dir_all(folder).with_context(..)?; Ok(filename)
zip_remove ==
    /\ prog = "lib" /\ pc = "zip_remove"
    /\ UNCHANGED <<env, mirrorState, archive, encrypted, encResult, exitCode>>
    /\ Logged(<<"zip_ret", 0>>)
    /\ \E ok \in BOOLEAN :
         IF ok
         THEN /\ stagedDirs' = {}
              /\ stagedFiles' = EmptyFiles
              /\ zipResult' = "ok"
              /\ pc' = lib_after_zip("ok")
              /\ UNCHANGED faults
         ELSE /\ RemoveFailed
              /\ zipResult' = "err"
              /\ faults' = faults \cup {"remove_dir_all"}
              /\ pc' = lib_after_zip("err")

zip_files_in_folder == zip_create \/ zip_append \/ zip_finish \/ zip_remove

\* main.rs: File::create(&filename), return Err(err) on failure.
main_zip_create ==
    /\ prog = "main" /\ pc = "zip_create"
    /\ UNCHANGED <<env, mirrorState, staging, encrypted, encResult, exitCode>>
    /\ \E ok \in BOOLEAN :
         IF ok
         THEN /\ archive' = [archive EXCEPT !.state = "created"]
              /\ pc' = "zip_append"
              /\ Logged(<<"zip", 0>>)
              /\ UNCHANGED <<zipResult, faults>>
         ELSE /\ zipResult' = "err"
              /\ faults' = faults \cup {"tar_create"}
              /\ pc' = "unwrap"
              /\ events' = events \o << <<"zip", 0>>, <<"zip_ret", 0>> >>
              /\ UNCHANGED archive

\* main.rs: archive.append_dir_all(folder_path, folder_path)
main_zip_append ==
    /\ prog = "main" /\ pc = "zip_append"
    /\ UNCHANGED <<env, mirrorState, staging, encrypted, encResult, exitCode>>
    /\ \E ok \in BOOLEAN :
         IF ok /\ can_append
         THEN /\ archive' = [archive EXCEPT !.state = "appended",
                                            !.content = [dirs |-> stagedDirs, files |-> stagedFiles]]
              /\ pc' = "zip_finish"
              /\ UNCHANGED <<zipResult, faults, events>>
         ELSE /\ zipResult' = "err"
              /\ faults' = IF can_append THEN faults \cup {"tar_append"} ELSE faults
              /\ pc' = "unwrap"
              /\ Logged(<<"zip_ret", 0>>)
              /\ UNCHANGED archive

\* main.rs: archive.finish()
main_zip_finish ==
    /\ prog = "main" /\ pc = "zip_finish"
    /\ UNCHANGED <<env, mirrorState, staging, encrypted, encResult, exitCode>>
    /\ \E ok \in BOOLEAN :
         IF ok
         THEN /\ archive' = [archive EXCEPT !.state = "finalized"]
              /\ pc' = "zip_remove"
              /\ UNCHANGED <<zipResult, faults, events>>
         ELSE /\ zipResult' = "err"
              /\ faults' = faults \cup {"tar_finish"}
              /\ pc' = "unwrap"
              /\ Logged(<<"zip_ret", 0>>)
              /\ UNCHANGED archive

\* main.rs: if let Err(err) = remove_dir_all(folder_path) { println!(..) }; Ok(filename)
main_zip_remove ==
    /\ prog = "main" /\ pc = "zip_remove"
    /\ UNCHANGED <<env, stack, results, idx, archive, encrypted, encResult, exitCode>>
    /\ Logged(<<"zip_ret", 0>>)
    /\ zipResult' = "ok"
    /\ pc' = "unwrap"
    /\ \E ok \in BOOLEAN :
         IF ok
         THEN /\ stagedDirs' = {}
              /\ stagedFiles' = EmptyFiles
              /\ UNCHANGED <<faults, diag>>
         ELSE /\ RemoveFailed
              /\ faults' = faults \cup {"remove_dir_all"}
              /\ diag' = diag (+) Note("stdout", "remove_failed", BACKUP_FOLDER_PATH)

main_zip_files_in_folder ==
    main_zip_create \/ main_zip_append \/ main_zip_finish \/ main_zip_remove

(* ------------------------------ Encryptor ----------------------------- *)

Keys == { [hrp |-> "age", bytes |-> 32], [hrp |-> "ssh", bytes |-> 32] }

\* x25519::Recipient::from_str: Bech32 with prefix "age" and a 32-byte key.
recipient_from_str(k) == k.hrp = "age" /\ k.bytes = 32

\* File::open(input_file_path) finds the plaintext archive.
input_exists == archive.state # "none" /\ ~archive.removed

\* One fallible I/O step of encrypt_file.
EncFail(fault) ==
    /\ encResult' = "io"
    /\ faults' = faults \cup {fault}
    /\ pc' = "enc_ret"
    /\ Logged(<<"encrypt_ret", 0>>)

\* backup_library.rs: Recipient::from_str(&public_key).map_err(InvalidInput)?
enc_parse ==
    /\ prog = "lib" /\ pc = "enc_parse"
    /\ UNCHANGED <<env, mirrorState, staging, archive, zipResult, encrypted, exitCode, faults>>
    /\ IF recipient_from_str(key)
       THEN /\ pc' = "enc_open"
            /\ Logged(<<"encrypt", 0>>)
            /\ UNCHANGED encResult
       ELSE /\ encResult' = "invalid_input"
            /\ pc' = "enc_ret"
            /\ events' = events \o << <<"encrypt", 0>>, <<"encrypt_ret", 0>> >>

\* backup_library.rs: File::open(&input_file_path)?
enc_open ==
    /\ prog = "lib" /\ pc = "enc_open"
    /\ UNCHANGED <<env, mirrorState, staging, archive, zipResult, encrypted, exitCode>>
    /\ \E ok \in BOOLEAN :
         IF ok /\ input_exists
         THEN pc' = "enc_create" /\ UNCHANGED <<encResult, faults, events>>
         ELSE EncFail("open")

\* backup_library.rs: File::create(output_filename)?
enc_create ==
    /\ prog = "lib" /\ pc = "enc_create"
    /\ UNCHANGED <<env, mirrorState, staging, archive, zipResult, exitCode>>
    /\ \E ok \in BOOLEAN :
         IF ok
         THEN /\ encrypted' = "created"
              /\ pc' = "enc_wrap"
              /\ UNCHANGED <<encResult, faults, events>>
         ELSE EncFail("age_create") /\ UNCHANGED encrypted

\* backup_library.rs: encryptor.wrap_output(output_file).map_err(..)?
enc_wrap ==
    /\ prog = "lib" /\ pc = "enc_wrap"
    /\ UNCHANGED <<env, mirrorState, staging, archive, zipResult, exitCode>>
    /\ \E ok \in BOOLEAN :
         IF ok
         THEN /\ encrypted' = "header"
              /\ pc' = "enc_copy"
              /\ UNCHANGED <<encResult, faults, events>>
         ELSE EncFail("wrap_output") /\ UNCHANGED encrypted

\* Variant: the plaintext is removed as soon as it has been copied, before
\* the encrypted stream is finished.
enc_copy_removing_input ==
    /\ prog = "lib" /\ pc = "enc_copy"
    /\ UNCHANGED <<env, mirrorState, staging, zipResult, exitCode>>
    /\ \E ok \in BOOLEAN :
         IF ok
         THEN /\ encrypted' = "written"
              /\ archive' = [archive EXCEPT !.removed = TRUE]
              /\ pc' = "enc_finish"
              /\ UNCHANGED <<encResult, faults, events>>
         ELSE EncFail("io_copy") /\ encrypted' = "partial" /\ UNCHANGED archive

\* backup_library.rs: io::copy(&mut input_file, &mut encrypted_output_file)?
enc_copy ==
    /\ prog = "lib" /\ pc = "enc_copy"
    /\ UNCHANGED <<env, mirrorState, staging, archive, zipResult, exitCode>>
    /\ \E ok \in BOOLEAN :
         IF ok
         THEN /\ encrypted' = "written"
              /\ pc' = "enc_finish"
              /\ UNCHANGED <<encResult, faults, events>>
         ELSE EncFail("io_copy") /\ encrypted' = "partial"

\* backup_library.rs: encrypted_output_file.finish()?
enc_finish ==
    /\ prog = "lib" /\ pc = "enc_finish"
    /\ UNCHANGED <<env, mirrorState, staging, archive, zipResult, exitCode>>
    /\ \E ok \in BOOLEAN :
         IF ok
         THEN /\ encrypted' = "finalized"
              /\ pc' = "enc_remove"
              /\ UNCHANGED <<encResult, faults, events>>
         ELSE EncFail("age_finish") /\ encrypted' = "partial"

\* backup_library.rs: remove_file(input_file_path)?; Ok(())
enc_remove ==
    /\ prog = "lib" /\ pc = "enc_remove"
    /\ UNCHANGED <<env, mirrorState, staging, zipResult, encrypted, exitCode>>
    /\ \E ok \in BOOLEAN :
         IF ok
         THEN /\ archive' = [archive EXCEPT !.removed = TRUE]
              /\ encResult' = "ok"
              /\ pc' = "enc_ret"
              /\ Logged(<<"encrypt_ret", 0>>)
              /\ UNCHANGED faults
         ELSE EncFail("remove_file") /\ UNCHANGED archive

encrypt_file ==
    enc_parse \/ enc_open \/ enc_create \/ enc_wrap \/ enc_copy \/ enc_finish \/ enc_remove

\* The caller of the library is finished once encrypt_file has returned.
lib_done ==
    /\ prog = "lib" /\ pc = "enc_ret"
    /\ pc' = "done"
    /\ UNCHANGED <<env, mirrorState, staging, tail, faults, events>>

\* main.rs: Recipient::from_str(&public_key).map_err(InvalidInput)?
main_enc_parse ==
    /\ prog = "main" /\ pc = "enc_parse"
    /\ UNCHANGED <<env, mirrorState, staging, archive, zipResult, encrypted, exitCode, faults>>
    /\ IF recipient_from_str(key)
       THEN /\ pc' = "enc_open"
            /\ Logged(<<"encrypt", 0>>)
            /\ UNCHANGED encResult
       ELSE /\ encResult' = "invalid_input"
            /\ pc' = "enc_ret"
            /\ events' = events \o << <<"encrypt", 0>>, <<"encrypt_ret", 0>> >>

\* main.rs: File::open(input_file)?
main_enc_open ==
    /\ prog = "main" /\ pc = "enc_open"
    /\ UNCHANGED <<env, mirrorState, staging, archive, zipResult, encrypted, exitCode>>
    /\ \E ok \in BOOLEAN :
         IF ok /\ input_exists
         THEN pc' = "enc_create" /\ UNCHANGED <<encResult, faults, events>>
         ELSE EncFail("open")

\* main.rs: File::create(output_filename)?
main_enc_create ==
    /\ prog = "main" /\ pc = "enc_create"
    /\ UNCHANGED <<env, mirrorState, staging, archive, zipResult, exitCode>>
    /\ \E ok \in BOOLEAN :
         IF ok
         THEN /\ encrypted' = "created"
              /\ pc' = "enc_wrap"
              /\ UNCHANGED <<encResult, faults, events>>
         ELSE EncFail("age_create") /\ UNCHANGED encrypted

\* main.rs: encryptor.wrap_output(output_file).map_err(..)?
main_enc_wrap ==
    /\ prog = "main" /\ pc = "enc_wrap"
    /\ UNCHANGED <<env, mirrorState, staging, archive, zipResult, exitCode>>
    /\ \E ok \in BOOLEAN :
         IF ok
         THEN /\ encrypted' = "header"
              /\ pc' = "enc_copy"
              /\ UNCHANGED <<encResult, faults, events>>
         ELSE EncFail("wrap_output") /\ UNCHANGED encrypted

\* main.rs: io::copy(&mut input_file, &mut encrypted_output_file)?
main_enc_copy ==
    /\ prog = "main" /\ pc = "enc_copy"
    /\ UNCHANGED <<env, mirrorState, staging, archive, zipResult, exitCode>>
    /\ \E ok \in BOOLEAN :
         IF ok
         THEN /\ encrypted' = "written"
              /\ pc' = "enc_finish"
              /\ UNCHANGED <<encResult, faults, events>>
         ELSE EncFail("io_copy") /\ encrypted' = "partial"

\* main.rs: encrypted_output_file.finish()?; Ok(())
main_enc_finish ==
    /\ prog = "main" /\ pc = "enc_finish"
    /\ UNCHANGED <<env, mirrorState, staging, archive, zipResult, exitCode>>
    /\ \E ok \in BOOLEAN :
         IF ok
         THEN /\ encrypted' = "finalized"
              /\ encResult' = "ok"
              /\ pc' = "enc_ret"
              /\ Logged(<<"encrypt_ret", 0>>)
              /\ UNCHANGED faults
         ELSE EncFail("age_finish") /\ encrypted' = "partial"

main_encrypt_file ==
    \/ main_enc_parse \/ main_enc_open \/ main_enc_create
    \/ main_enc_wrap \/ main_enc_copy \/ main_enc_finish

(* -------------------------------- Driver ------------------------------ *)

MainPaths == << <<"/", "home", "matty", ".ssh">>,
                <<"/", "home", "matty", ".kube">>,
                <<"/", "home", "matty", "Downloads", "test">> >>

Home == <<"/", "home", "matty">>

NoTree == [q \in {} |-> SpecialNode]

SshTrees == { NoTree,
              (MainPaths[1] :> DirNode(TRUE))
              @@ (Append(MainPaths[1], "id_rsa") :> FileNode(TRUE)) }

KubeTrees == { NoTree,
               (MainPaths[2] :> DirNode(TRUE))
               @@ (Append(MainPaths[2], "cache") :> DirNode(TRUE))
               @@ (MainPaths[2] \o <<"cache", "x">> :> FileNode(TRUE)) }

TestTrees == { NoTree,
               (Append(Home, "Downloads") :> DirNode(TRUE))
               @@ (MainPaths[3] :> DirNode(TRUE))
               @@ (Append(MainPaths[3], "f") :> FileNode(FALSE))
               @@ (Append(MainPaths[3], "sock") :> SpecialNode) }

MainTrees == { (<<"/">> :> DirNode(TRUE)) @@ (<<"/", "home">> :> DirNode(TRUE))
               @@ (Home :> DirNode(TRUE)) @@ a @@ b @@ c :
               a \in SshTrees, b \in KubeTrees, c \in TestTrees }

\* Variant: the result of zip_files_in_folder is not unwrapped.
main_unwrap_lenient ==
    /\ prog = "main" /\ pc = "unwrap"
    /\ UNCHANGED <<env, mirrorState, staging, archive, zipResult, encrypted, encResult,
                   faults, events, exitCode>>
    /\ pc' = "enc_parse"

\* main.rs: let archive_file = zip_files_in_folder(..); archive_file.unwrap()
main_unwrap ==
    /\ prog = "main" /\ pc = "unwrap"
    /\ UNCHANGED <<env, mirrorState, staging, archive, zipResult, encrypted, encResult,
                   faults, events>>
    /\ IF zipResult = "ok"
       THEN pc' = "enc_parse" /\ UNCHANGED exitCode
       ELSE pc' = "done" /\ exitCode' = 101

\* main.rs: if let Err(e) = encrypt_file(..) { eprintln!(..); exit(1) }
main_exit ==
    /\ prog = "main" /\ pc = "enc_ret"
    /\ UNCHANGED <<env, stack, results, idx, staging, archive, zipResult, encrypted,
                   encResult, faults, events>>
    /\ pc' = "done"
    /\ IF encResult = "ok"
       THEN exitCode' = 0 /\ UNCHANGED diag
       ELSE /\ exitCode' = 1
            /\ diag' = diag (+) Note("stderr", "encryption_failed", <<>>)

Configs ==
    { [prog |-> "lib", fs |-> t, paths |-> <<s>>] : t \in LibTrees, s \in LibSources }
    \cup { [prog |-> "main", fs |-> t, paths |-> MainPaths] : t \in MainTrees }

Init ==
    /\ \E c \in Configs : prog = c.prog /\ fs = c.fs /\ paths = c.paths
    /\ key \in Keys
    /\ pc = "mirror"
    /\ idx = 1
    /\ stack = <<>>
    /\ results = <<>>
    /\ events = <<>>
    /\ stagedDirs = {}
    /\ stagedFiles = EmptyFiles
    /\ diag = EmptyBag
    /\ archive = [state |-> "none", content |-> [dirs |-> {}, files |-> EmptyFiles],
                  removed |-> FALSE]
    /\ zipResult = "none"
    /\ encrypted = "none"
    /\ encResult = "none"
    /\ exitCode = -1
    /\ faults = {}

Next ==
    \/ lib_mirror
    \/ backup_directory_contents_loop
    \/ backup_folder_walk
    \/ lib_return
    \/ zip_files_in_folder
    \/ encrypt_file
    \/ lib_done
    \/ main_for
    \/ backup_files_from_folder_loop
    \/ main_backup_folder_walk
    \/ main_return
    \/ main_zip_files_in_folder
    \/ main_unwrap
    \/ main_encrypt_file
    \/ main_exit

Spec == Init /\ [][Next]_vars

(* One call of the library's mirror on its own: the input is drawn first, *)
(* then backup_directory_contents runs to its return.                      *)

InitWalk ==
    /\ prog = "lib"
    /\ fs = LibTree(FileNode(TRUE), FileNode(TRUE), FileNode(TRUE), DirNode(TRUE),
                    FileNode(TRUE))
    /\ paths = <<D>>
    /\ key = [hrp |-> "age", bytes |-> 32]
    /\ pc = "input"
    /\ idx = 1
    /\ stack = <<>>
    /\ results = <<>>
    /\ events = <<>>
    /\ stagedDirs = {}
    /\ stagedFiles = EmptyFiles
    /\ diag = EmptyBag
    /\ archive = [state |-> "none", content |-> [dirs |-> {}, files |-> EmptyFiles],
                  removed |-> FALSE]
    /\ zipResult = "none"
    /\ encrypted = "none"
    /\ encResult = "none"
    /\ exitCode = -1
    /\ faults = {}

choose_input ==
    /\ pc = "input"
    /\ \E t \in LibTrees, s \in LibSources : fs' = t /\ paths' = <<s>>
    /\ pc' = "mirror"
    /\ UNCHANGED <<prog, key, idx, stack, results, events, staging, diag, tail, faults>>

NextWalk ==
    \/ choose_input
    \/ lib_mirror
    \/ backup_directory_contents_loop
    \/ backup_folder_walk
    \/ lib_return

\* The walk is one thread of blocking calls: an enabled step is taken.
SpecWalk == InitWalk /\ [][NextWalk]_vars /\ WF_vars(NextWalk)

(* ------------------------------ properties ---------------------------- *)

Src == paths[1]

\* The mirrored location the specification gives for absolute path p.
Mirrored(p) == BACKUP_FOLDER_PATH \o Tail(p)

\* The library's mirror call has returned and nothing has run since.
MirrorReturned == prog = "lib" /\ pc = "zip_create"

\* The source is a real directory (not reached through a link).
SrcIsRealDir == Src \in DOMAIN fs /\ fs[Src].kind = "dir"

Under(p) == { q \in DOMAIN fs : IsPrefix(p, q) }

RegularFiles(p) == { q \in Under(p) : fs[q].kind = "file" }

StagedAtOrBelow(p) ==
    { q \in stagedDirs \cup DOMAIN stagedFiles : IsPrefix(p, q) }

Range(f) == { f[i] : i \in DOMAIN f }

\* C1: every copy made by the library's mirror lands at the staging root
\* joined with the copied file's own absolute path without its leading root
\* separator, and once the call has returned Ok every readable regular file
\* of the source (the single file, the files of the directory and the files
\* of nested directories) has its copy there.
C1_MirroredPlacement ==
    prog = "lib" /\ pc \in {"walk", "zip_create"} =>
        /\ \A dst \in DOMAIN stagedFiles :
              /\ is_absolute(stagedFiles[dst].from)
              /\ dst = Mirrored(stagedFiles[dst].from)
        /\ (pc = "zip_create" /\ results = <<"ok">> /\ Src \in DOMAIN fs) =>
              \A f \in RegularFiles(Src) :
                  fs[f].ok => /\ Mirrored(f) \in DOMAIN stagedFiles
                              /\ stagedFiles[Mirrored(f)].data = f

C1_Witness ==
    /\ MirrorReturned /\ results = <<"ok">> /\ Src = D
    /\ <<"laptop-backup", "d", "b">> \in DOMAIN stagedFiles
    /\ <<"laptop-backup", "d", "s", "t", "e">> \in DOMAIN stagedFiles
    /\ stagedFiles[<<"laptop-backup", "d", "s", "t", "e">>].data = <<"/", "d", "s", "t", "e">>

Unreadable(p) == { f \in RegularFiles(p) : ~fs[f].ok }

\* A tree in which exactly one regular file cannot be copied and nothing
\* else goes wrong: every directory can be listed and created, and no
\* symbolic link leads to a directory or to a file that cannot be read.
OneFailingFile ==
    /\ MirrorReturned /\ SrcIsRealDir
    /\ Cardinality(Unreadable(Src)) = 1
    /\ faults = {}
    /\ \A q \in Under(Src) :
          /\ fs[q].kind = "dir" => fs[q].ok
          /\ fs[q].kind = "link" => ~is_dir(q) /\ (is_file(q) => readable(q))

CopyFailures == { n \in BagToSet(diag) : n.kind = "copy_failed" }

\* C2: with exactly one regular file of the tree failing to copy, the call
\* returns Ok, every other regular file is staged, and exactly one copy
\* failure is reported, for the failing file.
C2_FailureIsolated ==
    OneFailingFile =>
        /\ results = <<"ok">>
        /\ \A f \in RegularFiles(Src) \ Unreadable(Src) :
              /\ Mirrored(f) \in DOMAIN stagedFiles
              /\ stagedFiles[Mirrored(f)].data = f
        /\ \A g \in Unreadable(Src) :
              /\ CopyFailures = { [stream |-> "stderr", kind |-> "copy_failed", path |-> g] }
              /\ CopiesIn([stream |-> "stderr", kind |-> "copy_failed", path |-> g], diag) = 1
              /\ Mirrored(g) \notin DOMAIN stagedFiles

C2_Witness ==
    /\ OneFailingFile /\ Src = D
    /\ Unreadable(Src) = { <<"/", "d", "b">> }
    /\ <<"laptop-backup", "d", "s", "t", "e">> \in DOMAIN stagedFiles
    /\ <<"laptop-backup", "d", "a">> \in DOMAIN stagedFiles
    /\ CopiesIn([stream |-> "stderr", kind |-> "copy_failed", path |-> <<"/", "d", "b">>], diag) = 1

\* The links of the mirrored tree that point back to their own directory.
SelfLinks == { l \in Under(Src) : fs[l].kind = "link" /\ fs[l].target = Front(l) }

Siblings(l) == { q \in Under(Front(l)) : Len(q) = Len(l) /\ q # l }

SiblingsCopied ==
    \A l \in SelfLinks : \A q \in Siblings(l) :
        /\ fs[q].kind = "file" /\ fs[q].ok =>
              /\ Mirrored(q) \in DOMAIN stagedFiles
              /\ stagedFiles[Mirrored(q)].data = q
        /\ fs[q].kind = "dir" =>
              /\ Mirrored(q) \in stagedDirs
              /\ \A f \in RegularFiles(q) :
                    fs[f].ok => Mirrored(f) \in DOMAIN stagedFiles

AllListable == \A q \in Under(Src) : fs[q].kind = "dir" => fs[q].ok

\* C3: mirroring a directory that holds a link back to itself, as the
\* source or as a nested directory, returns; it returns Ok when no directory
\* operation fails, and then every sibling file and sibling directory of the
\* link is staged.
C3_SelfLinkTerminates ==
    (prog = "lib" /\ pc = "mirror" /\ SrcIsRealDir /\ SelfLinks # {})
        ~> ( /\ pc = "zip_create"
             /\ results \in {<<"ok">>, <<"err">>}
             /\ (faults = {} /\ AllListable => results = <<"ok">>)
             /\ (results = <<"ok">> => SiblingsCopied) )

C3_Witness ==
    /\ MirrorReturned /\ results = <<"ok">> /\ Src = D
    /\ fs[<<"/", "d", "a">>] = LinkNode(D)
    /\ fs[<<"/", "d", "s", "c">>] = LinkNode(<<"/", "d", "s">>)
    /\ <<"laptop-backup", "d", "b">> \in DOMAIN stagedFiles
    /\ <<"laptop-backup", "d", "s", "t", "e">> \in DOMAIN stagedFiles

\* The events of a complete run of main, in program order.
MirrorEvents(n) ==
    [i \in 1..(2 * n) |-> IF i % 2 = 1 THEN <<"mirror", (i + 1) \div 2>>
                                       ELSE <<"mirror_ret", i \div 2>>]

ArchiveEvents == << <<"zip", 0>>, <<"zip_ret", 0>> >>

EncryptEvents == << <<"encrypt", 0>>, <<"encrypt_ret", 0>> >>

\* C4: in every run of main the mirror calls are made once each in list
\* order and have all returned before the Archiver starts; the Archiver runs
\* once and has returned, its removal of the staging root attempted, before
\* the Encryptor starts; the Encryptor runs once, and only after an Archiver
\* call that returned Ok.
C4_DriverOrder ==
    prog = "main" =>
        /\ IsPrefix(events, MirrorEvents(Len(paths)) \o ArchiveEvents \o EncryptEvents)
        /\ <<"encrypt", 0>> \in Range(events) =>
              /\ zipResult = "ok"
              /\ stagedDirs = {} \/ "remove_dir_all" \in faults
        /\ pc = "done" =>
              /\ IsPrefix(MirrorEvents(Len(paths)) \o ArchiveEvents, events)
              /\ Len(results) = Len(paths)
              /\ zipResult = "ok" =>
                    events = MirrorEvents(Len(paths)) \o ArchiveEvents \o EncryptEvents

C4_Witness ==
    /\ prog = "main" /\ pc = "done"
    /\ results = <<"err", "ok", "ok">>
    /\ events = MirrorEvents(3) \o ArchiveEvents \o EncryptEvents
    /\ exitCode = 0

\* C5: the library's encrypt_file is all-or-nothing: once it has returned,
\* either it returned Ok, the encrypted file is finalized and the plaintext
\* archive is removed, or it returned an error and the plaintext archive is
\* still there as written; an invalid key fails with invalid input before
\* any output exists; and the plaintext is never removed before the
\* encrypted file is finalized.
C5_EncryptAllOrNothing ==
    prog = "lib" =>
        /\ archive.removed => encrypted = "finalized"
        /\ pc \in {"enc_ret", "done"} /\ encResult # "none" =>
              \/ encResult = "ok" /\ encrypted = "finalized" /\ archive.removed
              \/ /\ encResult \in {"invalid_input", "io"}
                 /\ ~archive.removed /\ archive.state = "finalized"
        /\ pc \in {"enc_ret", "done"} /\ encResult # "none" /\ ~recipient_from_str(key) =>
              encResult = "invalid_input" /\ encrypted = "none" /\ ~archive.removed

C5_Witness ==
    /\ prog = "lib" /\ pc = "enc_ret"
    /\ encResult = "ok" /\ encrypted = "finalized" /\ archive.removed

StagingShrinks ==
    \/ ~(stagedDirs \subseteq stagedDirs')
    \/ ~(DOMAIN stagedFiles \subseteq DOMAIN stagedFiles')

\* C6: in the library pipeline nothing is removed from the staging tree
\* unless the archive has been finalized with the whole staging tree in it,
\* and the plaintext archive is removed only once the encrypted file is
\* finalized.
C6_NoDeleteWithoutSuccessor ==
    [][ prog = "lib" =>
          /\ StagingShrinks =>
                /\ archive.state = "finalized"
                /\ archive.content = [dirs |-> stagedDirs, files |-> stagedFiles]
          /\ (~archive.removed /\ archive'.removed) => encrypted = "finalized" ]_vars

C6_Witness ==
    /\ prog = "lib" /\ pc = "done"
    /\ stagedDirs = {} /\ archive.content.dirs # {}
    /\ DOMAIN archive.content.files # {}
    /\ archive.state = "finalized" /\ archive.removed /\ encrypted = "finalized"

\* C7: when no file operation fails and the key is valid, main ends with
\* exit code 0 whatever the mirror calls returned.
C7_ExitCodeIgnoresMirrorFailures ==
    (prog = "main" /\ pc = "done" /\ faults = {} /\ recipient_from_str(key)) =>
        exitCode = 0

\* C8: in the library, once the archive is finalized a failing removal of
\* the staging root still lets zip_files_in_folder return Ok.
C8_RemovalBestEffort ==
    (prog = "lib" /\ archive.state = "finalized" /\ "remove_dir_all" \in faults) =>
        zipResult = "ok"

\* The entries of the mirrored tree that are neither a directory nor a
\* regular file themselves: symbolic links, devices, sockets.
NonRegular == { q \in Under(Src) : q # Src /\ fs[q].kind \in {"link", "special"} }

\* C9: nothing is staged at or below the mirrored path of a symbolic link,
\* device or socket found in the mirrored tree.
C9_NonRegularSkipped ==
    (prog = "lib" /\ pc \in {"walk", "zip_create"} /\ SrcIsRealDir) =>
        \A q \in NonRegular : StagedAtOrBelow(Mirrored(q)) = {}

\* C10: nothing is staged at or below the mirrored path of a child that
\* resolves to the directory holding it, at the top level as in nested
\* directories.
C10_SelfReferenceSkipped ==
    (prog = "lib" /\ pc \in {"walk", "zip_create"} /\ SrcIsRealDir) =>
        \A l \in SelfLinks : StagedAtOrBelow(Mirrored(l)) = {}

====
